---- MODULE Spec2Model ----
(***************************************************************************)
(* The scenario pipelines of scripts/ex-gwt-mt3dms-p01.py and              *)
(* scripts/ex-gwt-mt3dms-p02.py: build_model, write_model, run_model, the  *)
(* plotters, scenario() and the __main__ blocks.                           *)
(*                                                                         *)
(* Numbers.  The scripts compute with decimal fractions; the model keeps   *)
(* every real quantity as an integer count of thousandths (0.25 is 250,    *)
(* 5.0 is 5000).  FMul and FDiv are multiplication and division on that    *)
(* scale.  Counts and flags (nlay, ncol, mixelm, isothm, ...) are plain    *)
(* integers.                                                               *)
(*                                                                         *)
(* None.  A Python value that may be None is kept as a sequence: <<>> is   *)
(* None and <<v>> is the value v.  A dict is a function whose DOMAIN is    *)
(* the set of keys present.                                                *)
(***************************************************************************)
EXTENDS Integers, Sequences, FiniteSets, TLC

VARIABLES
    script,          \* which script is running: "p01" or "p02"
    config,          \* the flags of the shared configuration module
    parameters,      \* the script's scenario table, in definition order
    modvars,         \* the module-level arrays and lists build_model reads
    driver,          \* who calls: "main" (__main__), "test" (test_NN), "direct"
    mainpc,          \* position of __main__ / of the test harness
    executed,        \* the scenario indices scenario() was called with, in order
    idx,             \* scenario(): its argument
    key,             \* scenario(): key
    parameter_dict,  \* scenario(): parameter_dict
    scpc,            \* scenario(): the statement it is at
    sims,            \* scenario(): what build_model returned (<<>> is None)
    success,         \* scenario(): what run_model returned (<<>> before it)
    log,             \* the calls made during the current call, in order
    exc,             \* the exception that ended the current call, if any
    results,         \* per scenario index, the flag run_model last returned
    files            \* per scenario key, the input decks on disk

vars == << script, config, parameters, modvars, driver, mainpc, executed, idx,
           key, parameter_dict, scpc, sims, success, log, exc, results, files >>

---------------------------------------------------------------------------
(* Arithmetic on thousandths *)

Scale == 10 ^ 3

FMul(a, b) == (a * b) \div Scale

FDiv(a, b) == (a * Scale) \div b

None == << >>

Some(v) == << v >>

(* A keyword argument with its default: kw[name] when supplied. *)
Arg(kw, name, default) == IF name \in DOMAIN kw THEN kw[name] ELSE default

(* A keyword argument whose default is None. *)
OptArg(kw, name) == IF name \in DOMAIN kw THEN Some(kw[name]) ELSE None

---------------------------------------------------------------------------
(* ex-gwt-mt3dms-p01.py: module level *)

parameters_p01 ==
    << [key |-> "ex-gwt-mt3dms-p01a",
        args |-> [dispersivity |-> 0, retardation |-> 1000, decay |-> 0]],
       [key |-> "ex-gwt-mt3dms-p01b",
        args |-> [dispersivity |-> 10000, retardation |-> 1000, decay |-> 0]],
       [key |-> "ex-gwt-mt3dms-p01c",
        args |-> [dispersivity |-> 10000, retardation |-> 5000, decay |-> 0]],
       [key |-> "ex-gwt-mt3dms-p01d",
        args |-> [dispersivity |-> 10000, retardation |-> 5000, decay |-> 2]] >>

p01_nper == 1
p01_nlay == 1
p01_ncol == 101
p01_nrow == 1
p01_delr == 10000
p01_delc == 1000
p01_top == 0
p01_botm == -1000
p01_prsity == 250
p01_perlen == 2000000
p01_k11 == 1000
p01_k33 == p01_k11
p01_laytyp == 1
p01_nstp == 100000
p01_dt0 == FDiv(p01_perlen, p01_nstp)
p01_Lx == (p01_ncol - 1) * p01_delr
p01_v == 240
p01_q == FMul(p01_v, p01_prsity)
p01_h1 == FMul(p01_q, p01_Lx)
p01_icelltype == 1
p01_rhob == 250
p01_c0 == 1000

p01_Cells == (0 .. p01_nlay - 1) \X (0 .. p01_nrow - 1) \X (0 .. p01_ncol - 1)

(* np.zeros / np.ones of shape (nlay, nrow, ncol) *)
p01_full(v) == [c \in p01_Cells |-> v]

(* Module-level data whose CHD list has lost its downstream cell. *)
p01_modvars_one_chd ==
    [strt   |-> [p01_full(0) EXCEPT ![<<0, 0, 0>>] = p01_h1],
     ibound |-> [p01_full(1) EXCEPT ![<<0, 0, 0>>] = -1,
                                    ![<<0, 0, p01_ncol - 1>>] = -1],
     sconc  |-> p01_full(0),
     tdis_rc |-> << << p01_perlen, p01_nstp, Scale >> >>,
     chdspd |-> << << <<0, 0, 0>>, p01_h1 >> >>,
     cncspd |-> << << <<0, 0, 0>>, p01_c0 >> >>]

(* strt (119-120), ibound (123-125; index -1 is the last column), *)
(* sconc (132), tdis_rc (150-151), chdspd (157), cncspd (159).    *)
p01_modvars ==
    [strt   |-> [p01_full(0) EXCEPT ![<<0, 0, 0>>] = p01_h1],
     ibound |-> [p01_full(1) EXCEPT ![<<0, 0, 0>>] = -1,
                                    ![<<0, 0, p01_ncol - 1>>] = -1],
     sconc  |-> p01_full(0),
     tdis_rc |-> << << p01_perlen, p01_nstp, Scale >> >>,
     chdspd |-> << << <<0, 0, 0>>, p01_h1 >>, << <<0, 0, p01_ncol - 1>>, 0 >> >>,
     cncspd |-> << << <<0, 0, 0>>, p01_c0 >> >>]

(* The keywords build_model accepts besides sim_name. *)
p01_keywords == {"dispersivity", "retardation", "decay", "mixelm", "silent"}

---------------------------------------------------------------------------
(* ex-gwt-mt3dms-p01.py: build_model *)

(* An Mt3dRct block that sets isothm where it should set ireact. *)
p01_Mt3dRct_isothm_from_decay(retardation, decay) ==
    LET isothm == IF decay # 0 THEN 1
                  ELSE IF retardation = 1000 THEN 0 ELSE 1
        rc1    == IF decay # 0 THEN decay ELSE 0
        kd     == FDiv(FMul(retardation - 1000, p01_prsity), p01_rhob)
    IN  [isothm |-> isothm, ireact |-> 0, igetsc |-> 0,
         rhob |-> p01_rhob, sp1 |-> kd, rc1 |-> rc1, rc2 |-> rc1]

(* Lines 256-278: the reactive variables and the Mt3dRct keywords.  The *)
(* first test (retardation == 1.0, i.e. 1000 thousandths) assigns       *)
(* isothm, and rc1 on one branch only (rc1_259); the second test then   *)
(* assigns ireact and rc1 on both branches, so rc1_259 is never read.   *)
(* kd is computed after both tests, whatever they found.                *)
p01_Mt3dRct(retardation, decay) ==
    LET isothm  == IF retardation = 1000 THEN 0 ELSE 1
        rc1_259 == IF retardation = 1000 THEN Some(0) ELSE None
        ireact  == IF decay # 0 THEN 1 ELSE 0
        rc1     == IF decay # 0 THEN decay ELSE 0
        kd     == FDiv(FMul(retardation - 1000, p01_prsity), p01_rhob)
    IN  [isothm |-> isothm, ireact |-> ireact, igetsc |-> 0,
         rhob |-> p01_rhob, sp1 |-> kd, rc1 |-> rc1, rc2 |-> rc1]

(* A ModflowGwtmst block that leaves the "- 1.0" out of kd. *)
p01_GwtMst_no_offset(retardation, decay) ==
    LET sorption == IF retardation # 1000 THEN Some("linear") ELSE None
        kd == IF retardation # 1000
              THEN FDiv(FMul(retardation, p01_prsity), p01_rhob)
              ELSE 1000
    IN  [porosity |-> p01_prsity, sorption |-> sorption,
         bulk_density |-> p01_rhob, distcoef |-> kd,
         first_order_decay |-> (decay # 0),
         decay |-> decay, decay_sorbed |-> decay]

(* A ModflowGwtmst block that switches first-order decay on with the *)
(* retardation test instead of the decay test.                      *)
p01_GwtMst_decay_from_retardation(retardation, decay) ==
    LET sorption == IF retardation # 1000 THEN Some("linear") ELSE None
        kd == IF retardation # 1000
              THEN FDiv(FMul(retardation - 1000, p01_prsity), p01_rhob)
              ELSE 1000
        first_order_decay == (retardation # 1000)
    IN  [porosity |-> p01_prsity, sorption |-> sorption,
         bulk_density |-> p01_rhob, distcoef |-> kd,
         first_order_decay |-> first_order_decay,
         decay |-> decay, decay_sorbed |-> decay]

(* Lines 444-467: the ModflowGwtmst keywords. *)
p01_GwtMst(retardation, decay) ==
    LET sorption == IF retardation # 1000 THEN Some("linear") ELSE None
        kd == IF retardation # 1000
              THEN FDiv(FMul(retardation - 1000, p01_prsity), p01_rhob)
              ELSE 1000
        first_order_decay == (decay # 0)
    IN  [porosity |-> p01_prsity, sorption |-> sorption,
         bulk_density |-> p01_rhob, distcoef |-> kd,
         first_order_decay |-> first_order_decay,
         decay |-> decay, decay_sorbed |-> decay]

(* Lines 424-429: the advection scheme; None stands for raise Exception(). *)
p01_scheme(mixelm) ==
    IF mixelm = 0 THEN Some("UPSTREAM")
    ELSE IF mixelm = -1 THEN Some("TVD")
    ELSE None

(* Lines 435-442: the dispersion package exists only for dispersivity # 0. *)
p01_GwtDsp(dispersivity) ==
    IF dispersivity # 0
    THEN Some([xt3d_off |-> TRUE, alh |-> dispersivity, ath1 |-> dispersivity])
    ELSE None

(* Lines 181-212: the MODFLOW-2005 flow model. *)
p01_mf(mv) ==
    [nlay |-> p01_nlay, nrow |-> p01_nrow, ncol |-> p01_ncol,
     delr |-> p01_delr, delc |-> p01_delc, top |-> p01_top,
     nstp |-> p01_nstp, botm |-> p01_botm, perlen |-> p01_perlen,
     ibound |-> mv.ibound, strt |-> mv.strt,
     hk |-> p01_k11, laytyp |-> p01_laytyp]

(* Lines 223-227: the function's own c0, icbund and sconc.  sconc is *)
(* assigned in the function, so it is a local and not the module's.  *)
p01_local_sconc == [p01_full(0) EXCEPT ![<<0, 0, 0>>] = p01_c0]

p01_icbund == [p01_full(1) EXCEPT ![<<0, 0, 0>>] = -1]

(* Lines 215-284: the MT3DMS transport model. *)
p01_mt(mixelm, dispersivity, retardation, decay) ==
    [laycon |-> p01_laytyp, icbund |-> p01_icbund, prsity |-> p01_prsity,
     sconc |-> p01_local_sconc, dt0 |-> p01_dt0,
     mixelm |-> mixelm, al |-> dispersivity,
     rct |-> p01_Mt3dRct(retardation, decay)]

(* Lines 287-503: the MODFLOW 6 simulation (flow and transport models). *)
p01_sim(mv, sim_name, mixelm, dispersivity, retardation, decay) ==
    [name |-> sim_name,
     nper |-> p01_nper, perioddata |-> mv.tdis_rc,
     nlay |-> p01_nlay, nrow |-> p01_nrow, ncol |-> p01_ncol,
     delr |-> p01_delr, delc |-> p01_delc, top |-> p01_top,
     botm |-> p01_botm,
     icelltype |-> p01_icelltype, k |-> p01_k11, k33 |-> p01_k33,
     strt |-> mv.strt,
     chd |-> mv.chdspd, chd_maxbound |-> Len(mv.chdspd),
     ic |-> p01_local_sconc,
     scheme |-> p01_scheme(mixelm)[1],
     dsp |-> p01_GwtDsp(dispersivity),
     mst |-> p01_GwtMst(retardation, decay),
     cnc |-> mv.cncspd, cnc_maxbound |-> Len(mv.cncspd)]

(* What a call of build_model leaves behind: the exception it raised      *)
(* ("none" if it returned), the value it returned and the module-level    *)
(* variables after it.                                                    *)
Outcome(e, r, mv) == [exc |-> e, ret |-> r, mv |-> mv]

(* A build_model without line 226: sconc[0, 0, 0] = c0 then writes into *)
(* the module's array.                                                   *)
p01_build_model_global_sconc(cfg, mv, sim_name, kw) ==
    LET mv2 == [mv EXCEPT !.sconc = [@ EXCEPT ![<<0, 0, 0>>] = p01_c0]]
    IN  IF ~(DOMAIN kw \subseteq p01_keywords)
        THEN Outcome("TypeError: unexpected keyword", None, mv)
        ELSE IF ~cfg.buildModel
        THEN Outcome("none", None, mv)
        ELSE Outcome("none",
                     << p01_mf(mv2),
                        p01_mt(Arg(kw, "mixelm", 0),
                               Arg(kw, "dispersivity", 0),
                               Arg(kw, "retardation", 0),
                               Arg(kw, "decay", 0)),
                        p01_sim(mv2, sim_name, Arg(kw, "mixelm", 0),
                                Arg(kw, "dispersivity", 0),
                                Arg(kw, "retardation", 0),
                                Arg(kw, "decay", 0)) >>,
                     mv2)

(* Lines 167-505.  Binding **kwargs fails on a keyword the signature does *)
(* not have; with config.buildModel false the function returns None.      *)
p01_build_model(cfg, mv, sim_name, kw) ==
    LET dispersivity == Arg(kw, "dispersivity", 0)
        retardation  == Arg(kw, "retardation", 0)
        decay        == Arg(kw, "decay", 0)
        mixelm       == Arg(kw, "mixelm", 0)
    IN  IF ~(DOMAIN kw \subseteq p01_keywords)
        THEN Outcome("TypeError: unexpected keyword", None, mv)
        ELSE IF ~cfg.buildModel
        THEN Outcome("none", None, mv)
        ELSE IF p01_scheme(mixelm) = None
        THEN Outcome("Exception", None, mv)
        ELSE Outcome("none",
                     << p01_mf(mv),
                        p01_mt(mixelm, dispersivity, retardation, decay),
                        p01_sim(mv, sim_name, mixelm, dispersivity,
                                retardation, decay) >>,
                     mv)

---------------------------------------------------------------------------
(* ex-gwt-mt3dms-p02.py: module level *)

(* A table whose third entry names its rate "zeta" instead of "beta". *)
parameters_p02_zeta ==
    << [key |-> "ex-gwt-mt3dms-p02a",
        args |-> [sorption |-> "freundlich", Kf |-> 300, a |-> 700]],
       [key |-> "ex-gwt-mt3dms-p02b",
        args |-> [sorption |-> "langmuir", Kl |-> 100000, S |-> 3]],
       [key |-> "ex-gwt-mt3dms-p02c", args |-> [zeta |-> 0]],
       [key |-> "ex-gwt-mt3dms-p02d", args |-> [beta |-> 2]],
       [key |-> "ex-gwt-mt3dms-p02e", args |-> [beta |-> 10]],
       [key |-> "ex-gwt-mt3dms-p02f", args |-> [beta |-> 20000]] >>

parameters_p02 ==
    << [key |-> "ex-gwt-mt3dms-p02a",
        args |-> [sorption |-> "freundlich", Kf |-> 300, a |-> 700]],
       [key |-> "ex-gwt-mt3dms-p02b",
        args |-> [sorption |-> "langmuir", Kl |-> 100000, S |-> 3]],
       [key |-> "ex-gwt-mt3dms-p02c", args |-> [beta |-> 0]],
       [key |-> "ex-gwt-mt3dms-p02d", args |-> [beta |-> 2]],
       [key |-> "ex-gwt-mt3dms-p02e", args |-> [beta |-> 10]],
       [key |-> "ex-gwt-mt3dms-p02f", args |-> [beta |-> 20000]] >>

p02_nper == 2
p02_nlay == 1
p02_nrow == 1
p02_ncol == 101
p02_period1 == 160000
p02_period2 == 1340000
p02_delta_time == 1000
p02_delr == 160
p02_delc == 160
p02_top == 1000
p02_botm == 0
p02_velocity == 100
p02_hydraulic_conductivity == 10
p02_porosity == 370
p02_bulk_density == 1587
p02_distribution_coefficient == 933
p02_dispersivity == 1000
p02_source_concentration == 50
p02_initial_concentration == 0

p02_specific_discharge == FMul(p02_velocity, p02_porosity)

(* 0.00592 in the script; kept to the thousandth here. *)
p02_inflow_rate ==
    FMul(FMul(p02_specific_discharge, p02_delc), p02_top - p02_botm)

(* Lines 122-125 and 199-202: int(period / delta_time) steps per period. *)
p02_tdis_ds ==
    << << p02_period1, FDiv(p02_period1, p02_delta_time) \div Scale, Scale >>,
       << p02_period2, FDiv(p02_period2, p02_delta_time) \div Scale, Scale >> >>

(* The keywords build_mf6gwt and build_mt3dms accept. *)
p02_keywords == {"sorption", "Kf", "a", "Kl", "S", "beta"}

(* plot_results, line 481 *)
case_colors == << "blue", "green", "red", "yellow" >>

---------------------------------------------------------------------------
(* ex-gwt-mt3dms-p02.py: the builders *)

p02_grid ==
    [nlay |-> p02_nlay, nrow |-> p02_nrow, ncol |-> p02_ncol,
     delr |-> p02_delr, delc |-> p02_delc, top |-> p02_top,
     botm |-> p02_botm]

(* Lines 115-184 *)
build_mf6gwf(sim_folder) ==
    [folder |-> sim_folder, name |-> "flow",
     nper |-> p02_nper, perioddata |-> p02_tdis_ds, grid |-> p02_grid,
     icelltype |-> 0, k |-> p02_hydraulic_conductivity, strt |-> Scale,
     chd |-> << << <<0, 0, p02_ncol - 1>>, Scale >> >>,
     wel |-> << << <<0, 0, 0>>, p02_inflow_rate, p02_source_concentration >>,
                << <<0, 0, 0>>, p02_inflow_rate, 0 >> >>]

(* Lines 227-244: distcoef and sp2 are chosen one after the other, each  *)
(* by its own pair of tests; sorption is passed on as given.             *)
p02_GwtMst(sorption, Kf, a, Kl, S) ==
    LET distcoef0 == None
        distcoef1 == IF Kf # None THEN Kf ELSE distcoef0
        distcoef  == IF Kl # None THEN Kl ELSE distcoef1
        sp2_0     == None
        sp2_1     == IF a # None THEN a ELSE sp2_0
        sp2       == IF S # None THEN S ELSE sp2_1
    IN  [porosity |-> p02_porosity, bulk_density |-> p02_bulk_density,
         sorption |-> sorption, distcoef |-> distcoef, sp2 |-> sp2]

(* Lines 249-252: the immobile-domain package exists only for beta > 0. *)
p02_GwtIst(beta) ==
    IF beta # None /\ beta[1] > 0
    THEN Some([thetaim |-> p02_bulk_density, zetaim |-> beta[1]])
    ELSE None

(* Lines 190-275 *)
build_mf6gwt(sim_folder, kw) ==
    [folder |-> sim_folder, name |-> "trans",
     nper |-> p02_nper, perioddata |-> p02_tdis_ds, grid |-> p02_grid,
     strt |-> p02_initial_concentration,
     mst |-> p02_GwtMst(OptArg(kw, "sorption"), OptArg(kw, "Kf"),
                        OptArg(kw, "a"), OptArg(kw, "Kl"), OptArg(kw, "S")),
     scheme |-> "UPSTREAM",
     dsp |-> [xt3d_off |-> TRUE, alh |-> p02_dispersivity,
              ath1 |-> p02_dispersivity],
     ist |-> p02_GwtIst(OptArg(kw, "beta")),
     obs |-> << "X008", "CONCENTRATION", <<0, 0, 50>> >>]

(* Lines 278-309 *)
build_mf2005(sim_folder) ==
    [folder |-> sim_folder, name |-> "flow", grid |-> p02_grid,
     nper |-> p02_nper, perlen |-> << p02_period1, p02_period2 >>,
     hk |-> p02_hydraulic_conductivity,
     chd |-> << << 0, 0, p02_ncol - 1, Scale, Scale >> >>,
     wel |-> << << 0, 0, 0, p02_inflow_rate >> >>]

(* An Mt3dRct block that tests Kl before Kf, so that Kf wins. *)
p02_Mt3dRct_Kl_first(Kf, a, Kl, S, beta) ==
    LET r1 == IF beta # None
              THEN Some([isothm |-> 4,
                         sp1 |-> Some(p02_distribution_coefficient),
                         sp2 |-> beta])
              ELSE None
        r2 == IF Kl # None
              THEN Some([isothm |-> 3, sp1 |-> Kl, sp2 |-> S])
              ELSE r1
        r3 == IF Kf # None
              THEN Some([isothm |-> 2, sp1 |-> Kf, sp2 |-> a])
              ELSE r2
    IN  IF r3 = None
        THEN None
        ELSE Some([isothm |-> r3[1].isothm, igetsc |-> 0,
                   rhob |-> p02_bulk_density,
                   sp1 |-> r3[1].sp1, sp2 |-> r3[1].sp2])

(* Lines 338-352: three tests in the order beta, Kf, Kl; each one that   *)
(* holds assigns isothm, sp1 and sp2 together.  None is returned when    *)
(* none held: the names are then unassigned at line 350.                 *)
p02_Mt3dRct(Kf, a, Kl, S, beta) ==
    LET r0 == None
        r1 == IF beta # None
              THEN Some([isothm |-> 4,
                         sp1 |-> Some(p02_distribution_coefficient),
                         sp2 |-> beta])
              ELSE r0
        r2 == IF Kf # None
              THEN Some([isothm |-> 2, sp1 |-> Kf, sp2 |-> a])
              ELSE r1
        r3 == IF Kl # None
              THEN Some([isothm |-> 3, sp1 |-> Kl, sp2 |-> S])
              ELSE r2
    IN  IF r3 = None
        THEN None
        ELSE Some([isothm |-> r3[1].isothm, igetsc |-> 0,
                   rhob |-> p02_bulk_density,
                   sp1 |-> r3[1].sp1, sp2 |-> r3[1].sp2])

(* A build_mt3dms that starts from isothm = 0 with no coefficients, so *)
(* that the reaction package is always given something.               *)
build_mt3dms_with_default(sim_folder, modflowmodel, kw) ==
    LET rct == p02_Mt3dRct(OptArg(kw, "Kf"), OptArg(kw, "a"),
                           OptArg(kw, "Kl"), OptArg(kw, "S"),
                           OptArg(kw, "beta"))
        used == IF rct = None
                THEN [isothm |-> 0, igetsc |-> 0, rhob |-> p02_bulk_density,
                      sp1 |-> None, sp2 |-> None]
                ELSE rct[1]
    IN  Some([folder |-> sim_folder, name |-> "trans",
              modflowmodel |-> modflowmodel.name,
              prsity |-> p02_porosity, dt0 |-> p02_delta_time,
              obs |-> << <<0, 0, 50>> >>,
              mixelm |-> 0, al |-> p02_dispersivity,
              rct |-> used,
              ssm |-> << << 0, 0, 0, p02_source_concentration, 2 >>,
                         << 0, 0, 0, 0, 2 >> >>])

(* Lines 312-359; None when line 350 raises UnboundLocalError. *)
build_mt3dms(sim_folder, modflowmodel, kw) ==
    LET rct == p02_Mt3dRct(OptArg(kw, "Kf"), OptArg(kw, "a"),
                           OptArg(kw, "Kl"), OptArg(kw, "S"),
                           OptArg(kw, "beta"))
    IN  IF rct = None
        THEN None
        ELSE Some([folder |-> sim_folder, name |-> "trans",
                   modflowmodel |-> modflowmodel.name,
                   prsity |-> p02_porosity, dt0 |-> p02_delta_time,
                   obs |-> << <<0, 0, 50>> >>,
                   mixelm |-> 0, al |-> p02_dispersivity,
                   rct |-> rct[1],
                   ssm |-> << << 0, 0, 0, p02_source_concentration, 2 >>,
                              << 0, 0, 0, 0, 2 >> >>])

(* Lines 362-370.  **kwargs is bound when build_mf6gwt is called, so an  *)
(* unknown keyword only fails with config.buildModel true.               *)
p02_build_model(cfg, mv, sim_name, kw) ==
    IF ~cfg.buildModel
    THEN Outcome("none", None, mv)
    ELSE IF ~(DOMAIN kw \subseteq p02_keywords)
    THEN Outcome("TypeError: unexpected keyword", None, mv)
    ELSE LET sim_mf6gwf == build_mf6gwf(sim_name)
             sim_mf6gwt == build_mf6gwt(sim_name, kw)
             sim_mf2005 == build_mf2005(sim_name)
             sim_mt3dms == build_mt3dms(sim_name, sim_mf2005, kw)
         IN  IF sim_mt3dms = None
             THEN Outcome("UnboundLocalError", None, mv)
             ELSE Outcome("none",
                          << sim_mf6gwf, sim_mf6gwt, sim_mf2005,
                             sim_mt3dms[1] >>,
                          mv)

---------------------------------------------------------------------------
(* The calls a scenario makes, as logged events.  ph is the phase a call  *)
(* belongs to, op what is done, arg on what, ok whether it succeeded.     *)

Ev(ph, op, arg, ok) == [ph |-> ph, op |-> op, arg |-> arg, ok |-> ok]

Phases == << "build", "write", "run", "plot" >>

(* The simulation descriptions of a script, in the order they are built, *)
(* written and run.                                                      *)
Solvers(s) ==
    IF s = "p01"
    THEN << "mf2005", "mt3dms", "mf6" >>
    ELSE << "mf6gwf", "mf6gwt", "mf2005", "mt3dms" >>

(* The output files the per-scenario plotter reads, in reading order,    *)
(* each with the solver that writes it.                                  *)
PlotInputs(s) ==
    IF s = "p01"
    THEN << [file |-> "MT3D001.UCN", by |-> "mt3dms"],
            [file |-> "gwt-p01-mf6.ucn", by |-> "mf6"] >>
    ELSE << [file |-> "trans.obs.csv", by |-> "mf6gwt"],
            [file |-> "MT3D001.OBS", by |-> "mt3dms"] >>

Result(e, evs) == [exc |-> e, events |-> evs]

RECURSIVE MapEv(_, _, _)
MapEv(ph, op, names) ==
    IF names = << >> THEN << >>
    ELSE << Ev(ph, op, Head(names), TRUE) >> \o MapEv(ph, op, Tail(names))

---------------------------------------------------------------------------
(* write_model *)

(* p01 lines 511-515: the three descriptions are written in turn. *)
p01_write_model(cfg, sm) ==
    IF cfg.writeModel
    THEN Result("none", MapEv("write", "write", Solvers("p01")))
    ELSE Result("none", << >>)

(* p02 lines 376-383: sims is unpacked inside the gate. *)
p02_write_model(cfg, sm) ==
    IF cfg.writeModel
    THEN IF sm = None
         THEN Result("TypeError: cannot unpack None", << >>)
         ELSE Result("none", MapEv("write", "write", Solvers("p02")))
    ELSE Result("none", << >>)

(* The input decks a write leaves on disk: one per description. *)
Decks(s, sm) == [i \in 1 .. Len(Solvers(s)) |-> sm[i]]

---------------------------------------------------------------------------
(* run_model *)

RunState(succ, buff, evs) == [success |-> succ, buff |-> buff, events |-> evs]

(* success, buff = X.run_model(...): both names are assigned anew. *)
exec(st, name, ok) ==
    RunState(ok, name, Append(st.events, Ev("run", "exec", name, ok)))

(* if not success: print(buff) *)
print_if_failed(st) ==
    IF ~st.success
    THEN RunState(st.success, st.buff,
                  Append(st.events, Ev("run", "print", st.buff, TRUE)))
    ELSE st

RunResult(e, succ, evs) == [exc |-> e, success |-> succ, events |-> evs]

(* A run_model whose flag starts out False, so that a skipped run is  *)
(* reported as a failure.                                            *)
p01_run_model_false_when_skipped(cfg, sm, out) ==
    LET s0 == RunState(FALSE, "", << >>)
    IN  IF cfg.runModel
        THEN LET s1 == exec(s0, "mf2005", out["mf2005"])
                 s2 == exec(s1, "mt3dms", out["mt3dms"])
                 s3 == exec(s2, "mf6", out["mf6"])
                 s4 == print_if_failed(s3)
             IN  RunResult("none", s4.success, s4.events)
        ELSE RunResult("none", s0.success, s0.events)

(* p01 lines 522-531: three runs, then one test of the last flag. *)
p01_run_model(cfg, sm, out) ==
    LET s0 == RunState(TRUE, "", << >>)
    IN  IF cfg.runModel
        THEN LET s1 == exec(s0, "mf2005", out["mf2005"])
                 s2 == exec(s1, "mt3dms", out["mt3dms"])
                 s3 == exec(s2, "mf6", out["mf6"])
                 s4 == print_if_failed(s3)
             IN  RunResult("none", s4.success, s4.events)
        ELSE RunResult("none", s0.success, s0.events)

(* A run_model that gives up at the first solver that fails. *)
p02_run_model_stop_on_failure(cfg, sm, out) ==
    LET s0 == RunState(TRUE, "", << >>)
    IN  IF cfg.runModel
        THEN IF sm = None
             THEN RunResult("TypeError: cannot unpack None", FALSE, << >>)
             ELSE LET s1 == print_if_failed(exec(s0, "mf6gwf", out["mf6gwf"]))
                      s2 == IF s1.success
                            THEN print_if_failed(exec(s1, "mf6gwt",
                                                      out["mf6gwt"]))
                            ELSE s1
                      s3 == IF s2.success
                            THEN print_if_failed(exec(s2, "mf2005",
                                                      out["mf2005"]))
                            ELSE s2
                      s4 == IF s3.success
                            THEN print_if_failed(exec(s3, "mt3dms",
                                                      out["mt3dms"]))
                            ELSE s3
                  IN  RunResult("none", s4.success, s4.events)
        ELSE RunResult("none", s0.success, s0.events)

(* p02 lines 390-415: four runs, each followed by its own test. *)
p02_run_model(cfg, sm, out) ==
    LET s0 == RunState(TRUE, "", << >>)
    IN  IF cfg.runModel
        THEN IF sm = None
             THEN RunResult("TypeError: cannot unpack None", FALSE, << >>)
             ELSE LET s1 == print_if_failed(exec(s0, "mf6gwf", out["mf6gwf"]))
                      s2 == print_if_failed(exec(s1, "mf6gwt", out["mf6gwt"]))
                      s3 == print_if_failed(exec(s2, "mf2005", out["mf2005"]))
                      s4 == print_if_failed(exec(s3, "mt3dms", out["mt3dms"]))
                  IN  RunResult("none", s4.success, s4.events)
        ELSE RunResult("none", s0.success, s0.events)

---------------------------------------------------------------------------
(* The plotters *)

(* Reading output files one after the other; the first one that is not  *)
(* there raises FileNotFoundError and ends the reading.                  *)
RECURSIVE ReadAll(_, _)
ReadAll(inputs, present) ==
    IF inputs = << >> THEN Result("none", << >>)
    ELSE IF ~present[Head(inputs).file]
    THEN Result("FileNotFoundError",
                << Ev("plot", "read", Head(inputs).file, FALSE) >>)
    ELSE LET rest == ReadAll(Tail(inputs), present)
         IN  Result(rest.exc,
                    << Ev("plot", "read", Head(inputs).file, TRUE) >>
                        \o rest.events)

savefig(cfg, name) ==
    IF cfg.plotSave THEN << Ev("plot", "savefig", name, TRUE) >> ELSE << >>

(* A plot_results that does not look at config.plotModel. *)
p01_plot_results_ungated(cfg, sm, i, present) ==
    LET rd == ReadAll(PlotInputs("p01"), present)
    IN  IF rd.exc # "none" THEN rd
        ELSE Result("none", rd.events \o savefig(cfg, sm[3].name))

(* p01 lines 537-594 *)
p01_plot_results(cfg, sm, i, present) ==
    IF cfg.plotModel
    THEN LET rd == ReadAll(PlotInputs("p01"), present)
         IN  IF rd.exc # "none" THEN rd
             ELSE Result("none", rd.events \o savefig(cfg, sm[3].name))
    ELSE Result("none", << >>)

(* p02 lines 421-469 *)
p02_plot_results_ct(cfg, sm, i, present) ==
    IF cfg.plotModel
    THEN IF sm = None
         THEN Result("TypeError: cannot unpack None", << >>)
         ELSE LET rd == ReadAll(PlotInputs("p02"), present)
              IN  IF rd.exc # "none" THEN rd
                  ELSE Result("none",
                              rd.events \o savefig(cfg, sm[4].folder))
    ELSE Result("none", << >>)

(* p02 lines 472-521, the plot of scenarios c to f together.  For each   *)
(* table entry from the third on: look up beta, read the MODFLOW 6       *)
(* observations, read the MT3DMS observations, pick the case's colour.   *)
(* nfound is how many of the files it asks for, in reading order, are    *)
(* there before the first one that is missing.                           *)
RECURSIVE plot_cases(_, _, _, _)
plot_cases(params, cases, icase, nfound) ==
    IF cases = << >> THEN Result("none", << >>)
    ELSE LET sim_name == Head(cases).key
             dict == Head(cases).args
         IN  IF "beta" \notin DOMAIN dict
             THEN Result("KeyError", << >>)
             ELSE IF nfound = 0
             THEN Result("FileNotFoundError",
                         << Ev("plot_all", "read trans.obs.csv", sim_name, FALSE) >>)
             ELSE IF nfound = 1
             THEN Result("FileNotFoundError",
                         << Ev("plot_all", "read trans.obs.csv", sim_name, TRUE),
                            Ev("plot_all", "read MT3D001.OBS", sim_name, FALSE) >>)
             ELSE IF icase + 1 > Len(case_colors)
             THEN Result("IndexError", << >>)
             ELSE LET rest == plot_cases(params, Tail(cases), icase + 1,
                                         nfound - 2)
                  IN  Result(rest.exc,
                             << Ev("plot_all", "read trans.obs.csv", sim_name,
                                   TRUE),
                                Ev("plot_all", "read MT3D001.OBS", sim_name,
                                   TRUE) >>
                                 \o rest.events)

p02_plot_results(cfg, params, nfound) ==
    IF cfg.plotModel
    THEN LET lp == plot_cases(params, SubSeq(params, 3, Len(params)), 0,
                              nfound)
         IN  IF lp.exc # "none" THEN lp
             ELSE Result("none",
                         lp.events
                             \o (IF cfg.plotSave
                                 THEN << Ev("plot_all", "savefig",
                                            "ex-gwt-mt3dms-p02", TRUE) >>
                                 ELSE << >>))
    ELSE Result("none", << >>)

---------------------------------------------------------------------------
(* scenario() *)

NoExc == [type |-> "none", at |-> "none"]

Raised(type, at) == [type |-> type, at |-> at]

(* A scenario() that runs the solvers before it writes their inputs. *)
scenario_next_run_first(ph) ==
    CASE ph = "build" -> "run"
      [] ph = "run"   -> "write"
      [] ph = "write" -> "plot"
      [] ph = "plot"  -> "ended"

(* p01 lines 608-615, p02 lines 536-540: the statement after each call. *)
scenario_next(ph) ==
    CASE ph = "build" -> "write"
      [] ph = "write" -> "run"
      [] ph = "run"   -> "plot"
      [] ph = "plot"  -> "ended"

(* A scenario() that plots whatever run_model returned. *)
call_plotter_always(succ) == TRUE

(* p01 line 614, p02 line 539: if success *)
call_plotter(succ) == succ

(* p01 lines 606-607, p02 lines 534-535 *)
key_of(params, i) == params[i + 1].key

dict_of(params, k) ==
    (CHOOSE e \in {params[j] : j \in 1 .. Len(params)} : e.key = k).args

build_model(s, cfg, mv, sim_name, kw) ==
    IF s = "p01"
    THEN p01_build_model(cfg, mv, sim_name, kw)
    ELSE p02_build_model(cfg, mv, sim_name, kw)

(* The descriptions a call of build_model sets out to construct. *)
build_calls(s, cfg, out) ==
    IF cfg.buildModel /\ out.exc # "TypeError: unexpected keyword"
    THEN MapEv("build", "construct", Solvers(s))
    ELSE << >>

(* p01 line 608, p02 line 536.  p01 unpacks the returned value into     *)
(* three names in scenario() itself; p02 keeps it whole.                 *)
Build ==
    /\ scpc = "build"
    /\ LET out == build_model(script, config, modvars, key, parameter_dict)
           evs == << Ev("build", "enter", "build_model", TRUE) >>
                      \o build_calls(script, config, out)
       IN  /\ log' = log \o evs
           /\ modvars' = out.mv
           /\ IF out.exc # "none"
              THEN /\ exc' = Raised(out.exc, "build")
                   /\ scpc' = "ended"
                   /\ sims' = sims
              ELSE IF script = "p01" /\ out.ret = None
              THEN /\ exc' = Raised("TypeError: cannot unpack None", "scenario")
                   /\ scpc' = "ended"
                   /\ sims' = sims
              ELSE /\ exc' = exc
                   /\ scpc' = scenario_next("build")
                   /\ sims' = out.ret
    /\ UNCHANGED << script, config, parameters, driver, mainpc, executed, idx,
                    key, parameter_dict, success, results, files >>

write_model(s, cfg, sm) ==
    IF s = "p01" THEN p01_write_model(cfg, sm) ELSE p02_write_model(cfg, sm)

(* p01 line 610, p02 line 537 *)
Write ==
    /\ scpc = "write"
    /\ LET w == write_model(script, config, sims)
       IN  /\ log' = log \o << Ev("write", "enter", "write_model", TRUE) >>
                         \o w.events
           /\ IF w.exc # "none"
              THEN /\ exc' = Raised(w.exc, "write")
                   /\ scpc' = "ended"
                   /\ files' = files
              ELSE /\ exc' = exc
                   /\ scpc' = scenario_next("write")
                   /\ files' = IF config.writeModel
                               THEN [files EXCEPT
                                       ![key] = Some(Decks(script, sims))]
                               ELSE files
    /\ UNCHANGED << script, config, parameters, modvars, driver, mainpc,
                    executed, idx, key, parameter_dict, sims, success,
                    results >>

SolverSet(s) == {Solvers(s)[i] : i \in 1 .. Len(Solvers(s))}

run_model(s, cfg, sm, out) ==
    IF s = "p01" THEN p01_run_model(cfg, sm, out)
    ELSE p02_run_model(cfg, sm, out)

(* p01 lines 612-614, p02 lines 538-539.  out is what each external     *)
(* solver reports if it is started.                                      *)
Run ==
    /\ scpc = "run"
    /\ \E out \in [SolverSet(script) -> BOOLEAN] :
         LET r == run_model(script, config, sims, out)
         IN  /\ log' = log \o << Ev("run", "enter", "run_model", TRUE) >>
                           \o r.events
                           \o (IF r.exc = "none"
                               THEN << Ev("run", "return", "run_model",
                                          r.success) >>
                               ELSE << >>)
             /\ IF r.exc # "none"
                THEN /\ exc' = Raised(r.exc, "run")
                     /\ scpc' = "ended"
                     /\ UNCHANGED << success, results >>
                ELSE /\ exc' = exc
                     /\ success' = Some(r.success)
                     /\ results' = [results EXCEPT
                                      ![idx] = IF r.success THEN "ok"
                                               ELSE "failed"]
                     /\ scpc' = IF call_plotter(r.success)
                                THEN scenario_next("run")
                                ELSE "ended"
    /\ UNCHANGED << script, config, parameters, modvars, driver, mainpc,
                    executed, idx, key, parameter_dict, sims, files >>

(* Whether solver name was run in this call and reported success. *)
Produced(name) ==
    \E j \in 1 .. Len(log) :
        log[j].op = "exec" /\ log[j].arg = name /\ log[j].ok

plotter(s, cfg, sm, i, present) ==
    IF s = "p01" THEN p01_plot_results(cfg, sm, i, present)
    ELSE p02_plot_results_ct(cfg, sm, i, present)

PlotFiles(s) == {PlotInputs(s)[j].file : j \in 1 .. Len(PlotInputs(s))}

(* p01 line 615, p02 line 540.  An output file is there when its solver  *)
(* wrote it in this call; otherwise it may be left from an earlier run   *)
(* of the script or be missing.                                          *)
Plot ==
    /\ scpc = "plot"
    /\ \E present \in [PlotFiles(script) -> BOOLEAN] :
         /\ \A j \in 1 .. Len(PlotInputs(script)) :
              Produced(PlotInputs(script)[j].by)
                  => present[PlotInputs(script)[j].file]
         /\ LET pl == plotter(script, config, sims, idx, present)
                fn == IF script = "p01" THEN "plot_results"
                      ELSE "plot_results_ct"
            IN  /\ log' = log \o << Ev("plot", "enter", fn, TRUE) >>
                              \o pl.events
                /\ IF pl.exc # "none"
                   THEN /\ exc' = Raised(pl.exc, "plot")
                        /\ scpc' = "ended"
                   ELSE /\ exc' = exc
                        /\ scpc' = scenario_next("plot")
    /\ UNCHANGED << script, config, parameters, modvars, driver, mainpc,
                    executed, idx, key, parameter_dict, sims, success,
                    results, files >>

---------------------------------------------------------------------------
(* The callers: the __main__ block and the test functions *)

(* How many calls the test harness makes in one run of the model. *)
MaxCalls == 2

Table(s) == IF s = "p01" THEN parameters_p01 ELSE parameters_p02

Pc(at, n) == [at |-> at, n |-> n]

(* Entering scenario(idx): p01 lines 605-607, p02 lines 533-535. *)
Enter(i) ==
    /\ idx' = i
    /\ key' = key_of(parameters, i)
    /\ parameter_dict' = dict_of(parameters, key_of(parameters, i))
    /\ executed' = Append(executed, i)
    /\ scpc' = "build"
    /\ sims' = None
    /\ success' = None
    /\ log' = << >>
    /\ exc' = NoExc

(* p01 lines 637-652, p02 lines 574-599: scenario(0), scenario(1), ... *)
MainCallsScenario ==
    /\ driver = "main"
    /\ mainpc.at = "scenario"
    /\ scpc = "idle"
    /\ Enter(mainpc.n)
    /\ UNCHANGED << script, config, parameters, modvars, driver, mainpc,
                    results, files >>

(* p01 lines 619-632, p02 lines 544-565: test_NN calls scenario(NN - 1); *)
(* the harness may run any of them, in any order.                        *)
TestCallsScenario ==
    /\ driver = "test"
    /\ mainpc.n < MaxCalls
    /\ scpc = "idle"
    /\ \E i \in 0 .. Len(parameters) - 1 : Enter(i)
    /\ UNCHANGED << script, config, parameters, modvars, driver, mainpc,
                    results, files >>

(* A __main__ block with one call left out after each one made. *)
main_after_scenario_skip(s, n) ==
    IF n + 2 < Len(Table(s)) THEN Pc("scenario", n + 2)
    ELSE IF s = "p02" THEN Pc("plot_results", n + 2)
    ELSE Pc("done", n + 2)

(* What __main__ does after scenario(n) has returned: the next call,    *)
(* for p02 the plot of all results (line 602), or the end.               *)
main_after_scenario(s, n) ==
    IF n + 1 < Len(Table(s)) THEN Pc("scenario", n + 1)
    ELSE IF s = "p02" THEN Pc("plot_results", n + 1)
    ELSE Pc("done", n + 1)

(* scenario() is over.  An exception nobody catches ends __main__; the  *)
(* test harness records it and goes on with the next test.               *)
Return ==
    /\ scpc = "ended"
    /\ scpc' = "idle"
    /\ mainpc' = IF driver = "test" THEN Pc("test", mainpc.n + 1)
                 ELSE IF exc.type # "none" THEN Pc("crashed", mainpc.n)
                 ELSE main_after_scenario(script, mainpc.n)
    /\ UNCHANGED << script, config, parameters, modvars, driver, executed,
                    idx, key, parameter_dict, sims, success, log, exc,
                    results, files >>

(* The output files plot_results() asks for when nothing stops it. *)
NPlotReads == 2 * (Len(parameters) - 2)

PlotAll(nfound) ==
    LET pl == p02_plot_results(config, parameters, nfound)
    IN  /\ log' = << Ev("plot_all", "enter", "plot_results", TRUE) >>
                      \o pl.events
        /\ exc' = IF pl.exc # "none" THEN Raised(pl.exc, "plot_results")
                  ELSE NoExc

(* p02 line 602 *)
MainPlotResults ==
    /\ driver = "main"
    /\ script = "p02"
    /\ mainpc.at = "plot_results"
    /\ scpc = "idle"
    /\ \E nfound \in 0 .. NPlotReads :
         /\ PlotAll(nfound)
         /\ mainpc' = IF exc'.type # "none" THEN Pc("crashed", mainpc.n)
                      ELSE Pc("done", mainpc.n)
    /\ UNCHANGED << script, config, parameters, modvars, driver, executed,
                    idx, key, parameter_dict, scpc, sims, success, results,
                    files >>

(* p02 lines 568-569: test_plot_results *)
TestPlotResults ==
    /\ driver = "test"
    /\ script = "p02"
    /\ mainpc.n < MaxCalls
    /\ scpc = "idle"
    /\ \E nfound \in 0 .. NPlotReads : PlotAll(nfound)
    /\ mainpc' = Pc("test", mainpc.n + 1)
    /\ UNCHANGED << script, config, parameters, modvars, driver, executed,
                    idx, key, parameter_dict, scpc, sims, success, results,
                    files >>

---------------------------------------------------------------------------
(* The specification of a run of either script *)

Flags ==
    [buildModel : BOOLEAN, writeModel : BOOLEAN, runModel : BOOLEAN,
     plotModel : BOOLEAN, plotSave : BOOLEAN]

ModVars(s) == IF s = "p01" THEN p01_modvars ELSE << >>

KeySet(params) == {params[j].key : j \in 1 .. Len(params)}

(* The state once the script's module level has been executed. *)
Loaded(s) ==
    /\ script = s
    /\ parameters = Table(s)
    /\ modvars = ModVars(s)
    /\ executed = << >>
    /\ idx = -1
    /\ sims = None
    /\ success = None
    /\ log = << >>
    /\ exc = NoExc
    /\ results = [i \in 0 .. Len(Table(s)) - 1 |-> "none"]
    /\ files = [k \in KeySet(Table(s)) |-> None]

Init ==
    /\ \E s \in {"p01", "p02"} : Loaded(s)
    /\ config \in Flags
    /\ driver \in {"main", "test"}
    /\ mainpc = IF driver = "main" THEN Pc("scenario", 0) ELSE Pc("test", 0)
    /\ scpc = "idle"
    /\ key = ""
    /\ parameter_dict = << >>

Next ==
    \/ MainCallsScenario
    \/ TestCallsScenario
    \/ Build
    \/ Write
    \/ Run
    \/ Plot
    \/ Return
    \/ MainPlotResults
    \/ TestPlotResults

Spec == Init /\ [][Next]_vars

---------------------------------------------------------------------------
(* The specification of build_model called with any keyword arguments:  *)
(* scenario() entered with a parameter_dict that need not be a table    *)
(* entry, up to the return of build_model.                               *)

Restrict(f, D) == [n \in D |-> f[n]]

(* Values tried for the keywords of p01's build_model (thousandths;     *)
(* mixelm is a plain integer).                                           *)
p01_Inputs ==
    [dispersivity : {0, 10000},
     retardation : {0, 500, 1000, 2000, 5000},
     decay : {0, 2, 500},
     mixelm : {0, -1, 1}]

(* Values tried for the keywords of p02's builders. *)
p02_Inputs ==
    [sorption : {"freundlich", "langmuir"},
     Kf : {300}, a : {700}, Kl : {100000}, S : {3},
     beta : {0, 2}]

(* Every dict that supplies some of the keywords, each with one of its  *)
(* values.                                                               *)
Dicts(inputs) ==
    UNION {{Restrict(f, D) : D \in SUBSET DOMAIN f} : f \in inputs}

InitBuild ==
    /\ \E s \in {"p01", "p02"} :
         /\ Loaded(s)
         /\ parameter_dict \in Dicts(IF s = "p01" THEN p01_Inputs
                                     ELSE p02_Inputs)
    /\ config \in {f \in Flags : f.writeModel /\ f.runModel /\ f.plotModel
                                   /\ f.plotSave}
    /\ driver = "direct"
    /\ mainpc = Pc("direct", 0)
    /\ scpc = "build"
    /\ key = "direct"

NextBuild == Build

SpecBuild == InitBuild /\ [][NextBuild]_vars

---------------------------------------------------------------------------
(* Properties of a run of a script (specification Spec) *)

Rank(ph) ==
    CASE ph = "build" -> 1
      [] ph = "write" -> 2
      [] ph = "run"   -> 3
      [] ph = "plot"  -> 4
      [] OTHER        -> 5

LogIdx == 1 .. Len(log)

(* run_model has returned to scenario() in the current call. *)
RunReturned == \E j \in LogIdx : log[j].op = "return"

(* C1: in both scripts, whatever the external solvers report, a call of *)
(* scenario() whose run_model returned False never calls the            *)
(* per-scenario plotter: no output file is read and no figure is saved  *)
(* in that call.                                                        *)
C1_NoPlotAfterFailedRun ==
    (RunReturned /\ success = Some(FALSE))
        => \A j \in LogIdx : log[j].ph # "plot"

(* A call has ended in which a started solver failed, run_model returned *)
(* False and plotting was enabled.                                       *)
C1_Witness ==
    /\ scpc = "ended"
    /\ config.runModel /\ config.plotModel /\ config.plotSave
    /\ success = Some(FALSE)
    /\ exc = NoExc
    /\ \E j \in LogIdx : log[j].op = "exec" /\ ~log[j].ok

(* C2: within one call of scenario() the phases happen in the order     *)
(* build, write, run, plot: nothing is written before the descriptions  *)
(* are built, no solver is started before the write phase has been      *)
(* passed, nothing is plotted before run_model has returned, and no     *)
(* phase is entered twice.                                              *)
C2_PhaseOrder ==
    /\ \A i, j \in LogIdx : i < j => Rank(log[i].ph) <= Rank(log[j].ph)
    /\ \A i, j \in LogIdx :
         (log[i].op = "enter" /\ log[j].op = "enter" /\ log[i].ph = log[j].ph)
             => i = j
    /\ \A j \in LogIdx :
         log[j].op = "write"
             => \E i \in 1 .. j - 1 : log[i].op = "construct"
    /\ \A j \in LogIdx :
         log[j].op = "exec"
             => \E i \in 1 .. j - 1 :
                    log[i].op = "enter" /\ log[i].ph = "write"
    /\ \A j \in LogIdx :
         log[j].ph = "plot"
             => \E i \in 1 .. j - 1 :
                    log[i].op = "return" /\ log[i].ph = "run"

(* A call went through all four phases and saved its figure. *)
C2_Witness ==
    /\ scpc = "ended"
    /\ exc = NoExc
    /\ \E j \in LogIdx : log[j].op = "construct"
    /\ \E j \in LogIdx : log[j].op = "write"
    /\ \E j \in LogIdx : log[j].op = "exec"
    /\ \E j \in LogIdx : log[j].op = "savefig"

Enabled(ph) ==
    CASE ph = "build" -> config.buildModel
      [] ph = "write" -> config.writeModel
      [] ph = "run"   -> config.runModel
      [] ph = "plot"  -> config.plotModel

Entered(ph) == \E j \in LogIdx : log[j].op = "enter" /\ log[j].ph = ph

PhaseSet == {Phases[i] : i \in 1 .. Len(Phases)}

(* C3: for every combination of the four flags, scenario() skips        *)
(* exactly the phases whose flag is false (a disabled phase makes no    *)
(* collaborator call) and still goes on to the gate of every later      *)
(* phase; with buildModel false it goes on to the write, run and plot   *)
(* gates and does not abort.  Stated for a call that is over: only an   *)
(* enabled phase may have ended it early, and otherwise every gate was  *)
(* reached (the plot gate when run_model returned True).                *)
C3_SkippedPhasesProceed ==
    scpc = "ended" =>
        /\ \A j \in LogIdx :
             (log[j].ph \in PhaseSet /\ log[j].op \notin {"enter", "return"})
                 => Enabled(log[j].ph)
        /\ exc.type # "none" => (exc.at \in PhaseSet /\ Enabled(exc.at))
        /\ exc.type = "none" =>
             /\ Entered("build") /\ Entered("write") /\ Entered("run")
             /\ success = Some(TRUE) => Entered("plot")

(* C4: with runModel enabled, the diagnostic text of every external     *)
(* solver that reported failure is printed, for each solver of the      *)
(* sequence and not only the last.                                      *)
C4_EveryFailurePrinted ==
    RunReturned =>
        \A j \in LogIdx :
            (log[j].op = "exec" /\ ~log[j].ok)
                => \E k \in LogIdx :
                       log[k].op = "print" /\ log[k].arg = log[j].arg

(* C5: run directly, a script calls scenario() for every entry of its   *)
(* table exactly once and in table order (4 entries in p01, 6 in p02);  *)
(* a failure run_model reports raises nothing, and __main__ goes on     *)
(* with the next scenario after it.  __main__ ends early only on an     *)
(* exception.                                                           *)
C5_AllScenariosInOrder ==
    driver = "main" =>
        /\ Len(parameters) = (IF script = "p01" THEN 4 ELSE 6)
        /\ Len(executed) <= Len(parameters)
        /\ \A j \in 1 .. Len(executed) : executed[j] = j - 1
        /\ mainpc.at \in {"plot_results", "done"}
               => Len(executed) = Len(parameters)
        /\ mainpc.at = "crashed" => exc.type # "none"
        /\ (RunReturned /\ success = Some(FALSE)) => exc = NoExc
        /\ (scpc = "idle" /\ RunReturned /\ success = Some(FALSE)
                /\ idx + 1 < Len(parameters))
               => mainpc = Pc("scenario", idx + 1)

(* __main__ ran to its end although the run of an earlier scenario      *)
(* failed, and a later scenario ran successfully.                       *)
C5_Witness ==
    /\ driver = "main"
    /\ mainpc.at = "done"
    /\ \E i, j \in DOMAIN results :
         i < j /\ results[i] = "failed" /\ results[j] = "ok"

---------------------------------------------------------------------------
(* Properties of build_model (specification SpecBuild) *)

(* build_model has returned its descriptions to scenario(). *)
Built(s) == script = s /\ scpc = "write" /\ sims # None

(* (retardation - 1) * porosity / bulk_density *)
KdFormula(retardation) ==
    FDiv(FMul(retardation - Scale, p01_prsity), p01_rhob)

(* C6 as stated: for every retardation >= 1 each solver is handed       *)
(* (retardation - 1) * porosity / bulk_density, and for retardation 1   *)
(* sorption is off on both.                                             *)
C6_KdEverywhere ==
    Built("p01") =>
        LET R == Arg(parameter_dict, "retardation", 0)
        IN  R >= Scale =>
              /\ sims[2].rct.sp1 = KdFormula(R)
              /\ sims[3].mst.distcoef = KdFormula(R)
              /\ R = Scale => (sims[2].rct.isothm = 0
                                /\ sims[3].mst.sorption = None)

(* C6, amended: for every retardation >= 1 MT3DMS is handed sp1 =       *)
(* (retardation - 1) * porosity / bulk_density; for retardation > 1     *)
(* sorption is on in both (isothm 1, "linear") and MODFLOW 6 is handed  *)
(* the same value as distcoef; for retardation 1 sorption is off in     *)
(* both (isothm 0, sorption None), MT3DMS is still handed the computed  *)
(* value, 0, and MODFLOW 6 the fixed distcoef 1.0.                      *)
C6_KdWhereSorbing ==
    Built("p01") =>
        LET R == Arg(parameter_dict, "retardation", 0)
        IN  R >= Scale =>
              /\ sims[2].rct.sp1 = KdFormula(R)
              /\ R > Scale => /\ sims[3].mst.distcoef = KdFormula(R)
                              /\ sims[2].rct.isothm = 1
                              /\ sims[3].mst.sorption = Some("linear")
              /\ R = Scale => /\ sims[3].mst.distcoef = Scale
                              /\ sims[2].rct.sp1 = 0
                              /\ sims[2].rct.isothm = 0
                              /\ sims[3].mst.sorption = None

(* build_model was called with retardation 5: both solvers got kd = 4. *)
C6_Witness ==
    /\ Built("p01")
    /\ Arg(parameter_dict, "retardation", 0) = 5000
    /\ sims[2].rct.sp1 = 4000
    /\ sims[3].mst.distcoef = 4000

Without(rec, names) == [n \in DOMAIN rec \ names |-> rec[n]]

(* The three descriptions of p01 without their decay-dependent values. *)
NonDecay(sm) ==
    << sm[1],
       [sm[2] EXCEPT !.rct = Without(@, {"ireact", "rc1", "rc2"})],
       [sm[3] EXCEPT !.mst = Without(@, {"first_order_decay", "decay",
                                         "decay_sorbed"})] >>

WithDecay(kw, d) ==
    [n \in DOMAIN kw \cup {"decay"} |-> IF n = "decay" THEN d ELSE kw[n]]

(* C7: two calls of p01's build_model that differ only in decay return  *)
(* descriptions that differ only in MT3DMS ireact, rc1, rc2 and         *)
(* MODFLOW 6 first_order_decay, decay, decay_sorbed.                    *)
C7_OnlyDecayDiffers ==
    Built("p01") =>
        \A d \in {f.decay : f \in p01_Inputs} :
            LET other == p01_build_model(config, modvars, key,
                                         WithDecay(parameter_dict, d))
            IN  /\ other.exc = "none"
                /\ NonDecay(other.ret) = NonDecay(sims)

(* The call compared had retardation 1 and a decay of its own, and a    *)
(* second call with no decay returns other decay settings.              *)
C7_Witness ==
    /\ Built("p01")
    /\ Arg(parameter_dict, "retardation", 0) = 1000
    /\ Arg(parameter_dict, "decay", 0) = 2
    /\ p01_build_model(config, modvars, key,
                       WithDecay(parameter_dict, 0)).ret # sims

(* The model the tests of build_mt3dms leave standing: they are made in *)
(* the order beta, Kf, Kl, so the last one that holds decides.          *)
LastChecked(kw) ==
    IF "Kl" \in DOMAIN kw THEN "langmuir"
    ELSE IF "Kf" \in DOMAIN kw THEN "freundlich"
    ELSE IF "beta" \in DOMAIN kw THEN "linear"
    ELSE "none"

(* isothm, sp1 and sp2 of one sorption model. *)
Mt3dOf(model, kw) ==
    CASE model = "langmuir" ->
           [isothm |-> 3, sp1 |-> OptArg(kw, "Kl"), sp2 |-> OptArg(kw, "S")]
      [] model = "freundlich" ->
           [isothm |-> 2, sp1 |-> OptArg(kw, "Kf"), sp2 |-> OptArg(kw, "a")]
      [] model = "linear" ->
           [isothm |-> 4, sp1 |-> Some(p02_distribution_coefficient),
            sp2 |-> OptArg(kw, "beta")]

(* sorption, distcoef and sp2 of one sorption model, for MODFLOW 6. *)
MstOf(model, kw) ==
    CASE model = "langmuir" ->
           [sorption |-> Some("langmuir"), distcoef |-> OptArg(kw, "Kl"),
            sp2 |-> OptArg(kw, "S")]
      [] model = "freundlich" ->
           [sorption |-> Some("freundlich"), distcoef |-> OptArg(kw, "Kf"),
            sp2 |-> OptArg(kw, "a")]
      [] model = "linear" ->
           [sorption |-> None, distcoef |-> None, sp2 |-> None]

Pick(rec, names) == [n \in names |-> rec[n]]

Mt3dTakesLastChecked ==
    Pick(sims[4].rct, {"isothm", "sp1", "sp2"})
        = Mt3dOf(LastChecked(parameter_dict), parameter_dict)

(* C10 as stated: in p02 the model is selected by which optional        *)
(* parameters are present, and with several supplied both builders take *)
(* the last-checked one, so that the model type and both coefficients   *)
(* come from that one model.                                            *)
C10_BothTakeLastChecked ==
    Built("p02") =>
        /\ Mt3dTakesLastChecked
        /\ Pick(sims[2].mst, {"sorption", "distcoef", "sp2"})
               = MstOf(LastChecked(parameter_dict), parameter_dict)

(* C10, amended: build_mt3dms selects the model by which of beta, Kf,   *)
(* Kl are present and takes the last-checked one, isothm, sp1 and sp2   *)
(* all coming from it.  build_mf6gwt takes the model type from the      *)
(* sorption argument alone and chooses the two coefficients one by one: *)
(* distcoef is Kl if supplied, else Kf; sp2 is S if supplied, else a.   *)
C10_Mt3dTakesLastChecked ==
    Built("p02") =>
        /\ Mt3dTakesLastChecked
        /\ sims[2].mst.sorption = OptArg(parameter_dict, "sorption")
        /\ sims[2].mst.distcoef =
               (IF "Kl" \in DOMAIN parameter_dict
                THEN OptArg(parameter_dict, "Kl")
                ELSE OptArg(parameter_dict, "Kf"))
        /\ sims[2].mst.sp2 =
               (IF "S" \in DOMAIN parameter_dict
                THEN OptArg(parameter_dict, "S")
                ELSE OptArg(parameter_dict, "a"))

(* All three groups were supplied at once; MT3DMS got the Langmuir      *)
(* model, MODFLOW 6 the Freundlich type with the Langmuir coefficients. *)
C10_Witness ==
    /\ Built("p02")
    /\ DOMAIN parameter_dict = {"sorption", "Kf", "a", "Kl", "S", "beta"}
    /\ parameter_dict.sorption = "freundlich"
    /\ sims[4].rct.isothm = 3
    /\ sims[2].mst.distcoef = Some(100000)

---------------------------------------------------------------------------
(* Further properties of a run of a script (specification Spec) *)

(* C8: build followed by write is idempotent per scenario: build_model  *)
(* reads but never changes the module-level tables and arrays nor the   *)
(* configuration, and input decks written again for a scenario are the  *)
(* ones already there.                                                  *)
C8_BuildWriteIdempotent ==
    [][/\ modvars' = modvars
       /\ parameters' = parameters
       /\ config' = config
       /\ \A k \in DOMAIN files :
            files[k] # None => files'[k] = files[k]]_vars

(* The test harness called the same scenario twice and both calls built *)
(* and wrote it.                                                        *)
C8_Witness ==
    /\ driver = "test"
    /\ Len(executed) = 2
    /\ executed[1] = executed[2]
    /\ config.buildModel /\ config.writeModel
    /\ scpc = "run"
    /\ \E j \in LogIdx : log[j].op = "write"
    /\ files[key] # None

Keywords(s) == IF s = "p01" THEN p01_keywords ELSE p02_keywords

(* C9: the parameter names of every table entry are keywords of the     *)
(* builders they are passed to, and every key looked up is there: no    *)
(* call ends on a missing key or an unexpected keyword.  In p02 every   *)
(* entry from the third on has the key beta, and there are no more of   *)
(* them than colours in plot_results.                                   *)
C9_TableKeysAccepted ==
    /\ \A j \in 1 .. Len(parameters) :
         DOMAIN parameters[j].args \subseteq Keywords(script)
    /\ script = "p02" =>
         /\ \A j \in 3 .. Len(parameters) :
              "beta" \in DOMAIN parameters[j].args
         /\ Len(parameters) - 2 <= Len(case_colors)
    /\ exc.type \notin {"KeyError", "IndexError",
                        "TypeError: unexpected keyword"}

(* __main__ of p02 built every scenario and plot_results drew all four  *)
(* cases and saved the figure.                                          *)
C9_Witness ==
    /\ script = "p02"
    /\ driver = "main"
    /\ config.buildModel
    /\ mainpc.at = "done"
    /\ Len(log) = 2 + NPlotReads
    /\ log[Len(log)].op = "savefig"

---------------------------------------------------------------------------
(* The first scenario of p01 (specification Spec) *)

(* The call is for dispersivity 0, retardation 1, decay 0 and           *)
(* build_model has returned its three descriptions.                     *)
PlainAdvectionBuilt ==
    /\ script = "p01"
    /\ sims # None
    /\ Arg(parameter_dict, "dispersivity", 0) = 0
    /\ Arg(parameter_dict, "retardation", 0) = Scale
    /\ Arg(parameter_dict, "decay", 0) = 0

(* The cells the MODFLOW-2005 model holds at constant head. *)
IboundChdCells(mf) == {c \in p01_Cells : mf.ibound[c] = -1}

(* The cells of a MODFLOW 6 CHD list. *)
ChdListCells(chd) == {chd[j][1] : j \in 1 .. Len(chd)}

(* C11: for the p01 scenario with dispersivity 0, decay 0 and           *)
(* retardation 1, build_model selects no sorption and no decay on both  *)
(* solvers; the grid has 1 layer, 1 row and 101 columns in both         *)
(* descriptions, with exactly two constant-head cells, column 0 and     *)
(* column 100, the same two in the MODFLOW-2005 ibound (-1) and in the  *)
(* MODFLOW 6 CHD list.                                                  *)
C11_PlainAdvectionGrid ==
    PlainAdvectionBuilt =>
        /\ sims[2].rct.isothm = 0
        /\ sims[2].rct.ireact = 0
        /\ sims[3].mst.sorption = None
        /\ sims[3].mst.first_order_decay = FALSE
        /\ << sims[1].nlay, sims[1].nrow, sims[1].ncol >> = << 1, 1, 101 >>
        /\ << sims[3].nlay, sims[3].nrow, sims[3].ncol >> = << 1, 1, 101 >>
        /\ IboundChdCells(sims[1]) = {<<0, 0, 0>>, <<0, 0, 100>>}
        /\ ChdListCells(sims[3].chd) = IboundChdCells(sims[1])
        /\ Len(sims[3].chd) = 2
        /\ sims[3].chd_maxbound = 2

(* scenario(0) of p01 has built its descriptions and written them. *)
C11_Witness ==
    /\ PlainAdvectionBuilt
    /\ idx = 0
    /\ key = "ex-gwt-mt3dms-p01a"
    /\ scpc = "run"
    /\ files[key] = Some(Decks("p01", sims))

---------------------------------------------------------------------------
(* The gates of the plotters (specification Spec) *)

(* The phases of the plotting functions: "plot" is the per-scenario     *)
(* plotter (p01 plot_results, p02 plot_results_ct), "plot_all" is p02   *)
(* plot_results.                                                        *)
PlotPhases == {"plot", "plot_all"}

(* C12: when plotModel is false, every plotting function (p01           *)
(* plot_results, p02 plot_results_ct and plot_results) returns without  *)
(* reading any solver output and without saving a figure: all it leaves *)
(* in the log is that it was entered, and it raises nothing.  A figure  *)
(* is saved only when both plotModel and plotSave are true.             *)
C12_PlotGated ==
    /\ ~config.plotModel =>
         /\ \A j \in LogIdx :
              log[j].ph \in PlotPhases => log[j].op = "enter"
         /\ exc.at \notin {"plot", "plot_results"}
    /\ \A j \in LogIdx :
         log[j].op = "savefig" => (config.plotModel /\ config.plotSave)

(* p02 was run directly with plotModel false and plotSave true: every   *)
(* scenario ran successfully, so plot_results_ct was called each time,  *)
(* and plot_results was called at the end and did nothing.              *)
C12_Witness ==
    /\ script = "p02"
    /\ driver = "main"
    /\ ~config.plotModel /\ config.plotSave /\ config.runModel
    /\ mainpc.at = "done"
    /\ \A i \in DOMAIN results : results[i] = "ok"
    /\ log = << Ev("plot_all", "enter", "plot_results", TRUE) >>

---------------------------------------------------------------------------
(* run_model and what scenario() does with its flag (specification Spec) *)

(* The solvers started in the current call, in the order of starting. *)
RECURSIVE Started(_)
Started(evs) ==
    IF evs = << >> THEN << >>
    ELSE IF Head(evs).op = "exec"
         THEN << Head(evs).arg >> \o Started(Tail(evs))
         ELSE Started(Tail(evs))

(* The per-scenario plotter asked for the first of its input files. *)
TriedToRead ==
    \E j \in LogIdx :
        /\ log[j].ph = "plot"
        /\ log[j].op = "read"
        /\ log[j].arg = PlotInputs(script)[1].file

(* C13: when runModel is false, run_model starts no external solver and *)
(* returns True, so scenario() goes on to call the per-scenario         *)
(* plotter; with plotModel true the plotter (handed the descriptions    *)
(* build_model returned) then asks for solver outputs that this call    *)
(* never produced, whether they are there or not.                       *)
C13_SkippedRunStillPlots ==
    (RunReturned /\ ~config.runModel) =>
        /\ Started(log) = << >>
        /\ success = Some(TRUE)
        /\ scpc = "plot" \/ Entered("plot")
        /\ \A j \in 1 .. Len(PlotInputs(script)) :
             ~Produced(PlotInputs(script)[j].by)
        /\ (Entered("plot") /\ config.plotModel /\ sims # None)
               => TriedToRead

(* With runModel false and plotModel true the plotter was called and    *)
(* ended on a file that is not there.                                   *)
C13_Witness ==
    /\ ~config.runModel /\ config.plotModel /\ config.buildModel
    /\ RunReturned
    /\ success = Some(TRUE)
    /\ scpc = "ended"
    /\ exc = Raised("FileNotFoundError", "plot")
    /\ TriedToRead

(* Every solver started in the current call reported success. *)
AllStartedSucceeded ==
    \A j \in LogIdx : log[j].op = "exec" => log[j].ok

(* C14: the flag run_model returns describes the whole scenario run:    *)
(* with runModel enabled it is True only if every external solver       *)
(* started in that call reported success, so that a failure of an       *)
(* earlier solver followed by a success of the last one still gives     *)
(* False.                                                               *)
C14_FlagCoversEverySolver ==
    (RunReturned /\ config.runModel) =>
        (success = Some(TRUE) => AllStartedSucceeded)

(* Where in the current call's log solver name was started (0: never). *)
StartOf(name) ==
    IF \E j \in LogIdx : log[j].op = "exec" /\ log[j].arg = name
    THEN CHOOSE j \in LogIdx : log[j].op = "exec" /\ log[j].arg = name
    ELSE 0

(* C15: with runModel enabled, run_model starts each solver of the      *)
(* scenario exactly once, one after the other, in a fixed order (p01:   *)
(* MF2005, MT3DMS, MODFLOW 6; p02: mf6gwf, mf6gwt, mf2005, mt3dms), so  *)
(* that each transport solver is started after the flow solver whose    *)
(* output it reads has returned; every solver of the sequence is        *)
(* started whether or not an earlier one failed.                        *)
C15_EverySolverOnceInOrder ==
    (RunReturned /\ config.runModel) =>
        /\ Started(log) = (IF script = "p01"
                           THEN << "mf2005", "mt3dms", "mf6" >>
                           ELSE << "mf6gwf", "mf6gwt", "mf2005", "mt3dms" >>)
        /\ 0 < StartOf("mf2005") /\ StartOf("mf2005") < StartOf("mt3dms")
        /\ script = "p02" =>
             (0 < StartOf("mf6gwf") /\ StartOf("mf6gwf") < StartOf("mf6gwt"))
        /\ \A i, j \in LogIdx :
             (log[i].op = "exec" /\ log[j].op = "exec"
                 /\ log[i].arg = log[j].arg) => i = j

(* The first solver of p02 failed and the three after it were started   *)
(* all the same; the last one failed too.                               *)
C15_Witness ==
    /\ script = "p02"
    /\ config.runModel
    /\ RunReturned
    /\ Len(Started(log)) = 4
    /\ ~log[StartOf("mf6gwf")].ok
    /\ log[StartOf("mf6gwt")].ok
    /\ ~log[StartOf("mt3dms")].ok
    /\ success = Some(FALSE)

---------------------------------------------------------------------------
(* The plot of all results of p02 (specification Spec) *)

(* The index of the table entry with key k. *)
IndexOf(k) == CHOOSE i \in 0 .. Len(parameters) - 1 : parameters[i + 1].key = k

(* C16: in p02 the plot of all results (plot_results, which draws       *)
(* scenarios c to f from their output files) is made only from          *)
(* scenarios whose run succeeded: in a direct run of the script it      *)
(* reads no output file of a scenario for which run_model returned      *)
(* failure.                                                             *)
C16_AggregateSkipsFailedRuns ==
    (script = "p02" /\ driver = "main") =>
        \A j \in LogIdx :
            (/\ log[j].ph = "plot_all"
             /\ log[j].op \in {"read trans.obs.csv", "read MT3D001.OBS"}
             /\ log[j].ok)
                => results[IndexOf(log[j].arg)] # "failed"

---------------------------------------------------------------------------
(* Agreement of the two reaction packages of p01 (specification         *)
(* SpecBuild)                                                           *)

(* C17: in p01's build_model, for every pair (retardation, decay) the   *)
(* two descriptions agree on the reactions: MT3DMS isothm is 1 exactly  *)
(* when MODFLOW 6 sorption is "linear" (and 0 otherwise), MT3DMS ireact *)
(* is 1 exactly when MODFLOW 6 first_order_decay is true (and 0         *)
(* otherwise), rc1 and rc2 are equal and equal the MODFLOW 6 decay      *)
(* whenever decay is active, and sp1 equals the MODFLOW 6 distcoef      *)
(* whenever sorption is active.                                         *)
C17_ReactionPackagesAgree ==
    Built("p01") =>
        LET rct == sims[2].rct
            mst == sims[3].mst
        IN  /\ rct.isothm \in {0, 1}
            /\ rct.ireact \in {0, 1}
            /\ (rct.isothm = 1) <=> (mst.sorption = Some("linear"))
            /\ (rct.isothm = 0) <=> (mst.sorption = None)
            /\ (rct.ireact = 1) <=> mst.first_order_decay
            /\ rct.rc1 = rct.rc2
            /\ mst.first_order_decay
                   => (rct.rc1 = mst.decay /\ mst.decay_sorbed = mst.decay)
            /\ mst.sorption # None => rct.sp1 = mst.distcoef

(* build_model was called with retardation 2 and decay 0.5: sorption    *)
(* and decay are on in both descriptions, with kd = 1 and rate 0.5.     *)
C17_Witness ==
    /\ Built("p01")
    /\ Arg(parameter_dict, "retardation", 0) = 2000
    /\ Arg(parameter_dict, "decay", 0) = 500
    /\ sims[2].rct.isothm = 1 /\ sims[2].rct.ireact = 1
    /\ sims[3].mst.sorption = Some("linear")
    /\ sims[3].mst.first_order_decay
    /\ sims[2].rct.sp1 = 1000 /\ sims[3].mst.distcoef = 1000
    /\ sims[2].rct.rc1 = 500 /\ sims[3].mst.decay = 500

---------------------------------------------------------------------------
(* The parameter groups of p02 (specification SpecBuild) *)

(* The three groups of optional parameters of the p02 builders. *)
ParameterGroups == {{"Kf", "a"}, {"Kl", "S"}, {"beta"}}

(* The parameters args supplies, other than the sorption name, are one  *)
(* whole group and nothing else.                                        *)
SuppliesOneGroup(args) == (DOMAIN args \ {"sorption"}) \in ParameterGroups

(* A sorption name, when given, is the one of the group supplied. *)
SorptionMatchesGroup(args) ==
    "sorption" \in DOMAIN args =>
        \/ args.sorption = "freundlich" /\ "Kf" \in DOMAIN args
        \/ args.sorption = "langmuir" /\ "Kl" \in DOMAIN args

(* None of the parameters build_mt3dms tests for is supplied. *)
NoGroupSupplied(kw) == DOMAIN kw \cap {"beta", "Kf", "Kl"} = {}

(* C18: in p02 every scenario of the parameter table supplies exactly   *)
(* one of the three parameter groups (Kf with a, Kl with S, or beta)    *)
(* and its sorption name, when given, matches the group (freundlich     *)
(* with Kf, langmuir with Kl); so build_mt3dms assigns isothm, sp1 and  *)
(* sp2 before it uses them for every table entry, whereas a call with   *)
(* none of beta, Kf, Kl supplied reaches the reaction package with them *)
(* unassigned and fails, and only such a call does.                     *)
C18_OneGroupPerScenario ==
    script = "p02" =>
        /\ \A j \in 1 .. Len(parameters) :
             /\ SuppliesOneGroup(parameters[j].args)
             /\ SorptionMatchesGroup(parameters[j].args)
             /\ ~NoGroupSupplied(parameters[j].args)
             /\ build_mt3dms(parameters[j].key,
                             build_mf2005(parameters[j].key),
                             parameters[j].args) # None
        /\ (scpc # "build" /\ config.buildModel) =>
             /\ NoGroupSupplied(parameter_dict)
                    <=> exc = Raised("UnboundLocalError", "build")
             /\ NoGroupSupplied(parameter_dict) => sims = None
             /\ ~NoGroupSupplied(parameter_dict)
                    => (sims # None /\ sims[4].rct.isothm \in {2, 3, 4})

(* build_model of p02 was called with a sorption name, a and S but none *)
(* of beta, Kf, Kl, and ended in build_mt3dms on the unassigned names.  *)
C18_Witness ==
    /\ script = "p02"
    /\ config.buildModel
    /\ DOMAIN parameter_dict = {"sorption", "a", "S"}
    /\ scpc = "ended"
    /\ sims = None
    /\ exc = Raised("UnboundLocalError", "build")

====
